---- MODULE Spec2Model ----
(***************************************************************************)
(* Historical-data view controller of the ModuleAir side panel             *)
(* (ModuleAirSidePanel, src/unnamed/part_002).                             *)
(*                                                                         *)
(* The React component is modelled as a state machine.  Props (isOpen,     *)
(* selectedStation), the useState cells (state, isLoading), the useRef     *)
(* cells (loadingRef, initialLoadDoneRef, stationIdRef), the queue of      *)
(* requestAnimationFrame callbacks and the set of promises in flight are   *)
(* the variables; every effect, handler, callback and promise settlement   *)
(* is one action.  Time is counted in hours, calendar dates in days.       *)
(***************************************************************************)
EXTENDS Integers, Sequences, FiniteSets, TLC

(***************************************************************************)
(* Bounds of the model                                                     *)
(***************************************************************************)
MaxFetches == 2      \* fetches dispatched, plus dispatches scheduled, in a run
MaxTimers == 1       \* notice timeouts pending at once
MaxDay == 34         \* last calendar day of the custom ranges given to the policy
MaxCodes == 2        \* longest pollutant selection given to the policy
MaxSamples == 3      \* longest series given to the statistics

(***************************************************************************)
(* Values                                                                  *)
(***************************************************************************)
NoStation == "none"
NoError == ""
NoMessage == 0
NoKey == <<>>
LoadError == "Erreur lors du chargement des donnees historiques"

MODULEAIR_TIMESTEP_OPTIONS == <<"instantane", "quartHeure", "heure", "jour">>

TimeSteps == {"instantane", "quartHeure", "heure", "jour"}

Presets == {"3h", "24h", "7d", "30d"}

\* codes of the pollutants table, in the table's (Object.entries) order
PollutantOrder == <<"pm25", "pm10">>

Pollutants == {"pm25", "pm10"}

Stations == {"A", "B"}

\* station.variables: the channels in service at each station
StationVariables == [s \in Stations |-> IF s = "A" THEN {"pm25", "pm10"} ELSE {"pm10"}]

\* the initialPollutant prop
initialPollutant == "pm25"

\* declared supportedTimeSteps of the pollutants table in the controller runs
\* ({} stands for a pollutant that declares none)
DefaultPollutants == [c \in Pollutants |-> IF c = "pm25" THEN TimeSteps ELSE {"heure", "jour"}]

HoursPerDay == 24

\* the clock of the controller runs: day 40, 13:00
Now0 == 40 * HoursPerDay + 13

ToSet(s) == {s[i] : i \in 1..Len(s)}

Includes(s, x) == \E i \in 1..Len(s) : s[i] = x

(***************************************************************************)
(* Time ranges                                                             *)
(***************************************************************************)
PresetRange(p) == [type |-> "preset", preset |-> p, startDate |-> -1, endDate |-> -1]

CustomRange(s, e) == [type |-> "custom", preset |-> "", startDate |-> s, endDate |-> e]

\* Date.toISOString().split("T")[0]: the calendar day of a timestamp
IsoDate(t) == t \div HoursPerDay

\* new Date("YYYY-MM-DD"): midnight of a calendar day
ParseDate(d) == d * HoursPerDay

\* Math.ceil(a / b) for b > 0
CeilDiv(a, b) == -((-a) \div b)

\* presetDays of the two lookup tables, in eighths of a day (3h = 0.125 day)
PresetEighths(p) == CASE p = "3h" -> 1 [] p = "24h" -> 8 [] p = "7d" -> 56 [] p = "30d" -> 240

\* ranges and steps offered to the handlers in the controller runs
RangeInputs == {PresetRange("24h"), CustomRange(5, 40)}

\* ranges offered in the one-station session
SessionRanges == {PresetRange("24h"), PresetRange("7d")}

StepInputs == {"instantane", "jour"}


(***************************************************************************)
(* Variables                                                               *)
(***************************************************************************)
VARIABLES
    isOpen,              \* prop isOpen
    selectedStation,     \* prop selectedStation (the station's id, or NoStation)
    state,               \* useState<SidePanelState>
    isLoading,           \* useState isLoading
    loadingRef,          \* useRef loadingRef.current
    initialLoadDoneRef,  \* useRef initialLoadDoneRef.current (a load key or NoKey)
    stationIdRef,        \* useRef stationIdRef.current
    rafQueue,            \* requestAnimationFrame callbacks not yet run, oldest first
    fetchCount,          \* number of fetches dispatched so far; a fetch's id is its rank
    inflight,            \* the fetches whose promise has not settled
    unhandled,           \* ids of the fetches whose rejection nobody caught
    timers,              \* pending setTimeout callbacks that clear the notice
    now,                 \* the clock (hours)
    pollutants,          \* the pollutants table: code -> declared supportedTimeSteps
    lastOp,              \* the event that ran last, with the controls it started from
    lastLoad,            \* id of the full load dispatched last (0: none yet)
    fetchLimit,          \* fetches, dispatched or scheduled, the run goes on for
    policy               \* inputs and results of the range/step policy functions

vars == <<isOpen, selectedStation, state, isLoading, loadingRef, initialLoadDoneRef,
          stationIdRef, rafQueue, fetchCount, inflight, unhandled, timers, now,
          pollutants, lastOp, lastLoad, fetchLimit, policy>>

(***************************************************************************)
(* Range/step policy                                                       *)
(***************************************************************************)
\* maximum history in days of a time step; 0 stands for null (unbounded)
getMaxHistoryDays(timeStep) ==
    CASE timeStep = "instantane" -> 1
      [] timeStep = "quartHeure" -> 7
      [] timeStep = "heure" -> 30
      [] OTHER -> 0

RECURSIVE ReduceSupported(_, _, _)
ReduceSupported(codes, i, acc) ==
    IF i > Len(codes) THEN acc
    ELSE LET declared == IF codes[i] \in DOMAIN pollutants THEN pollutants[codes[i]] ELSE {}
         IN  ReduceSupported(codes, i + 1,
                 IF declared # {} THEN SelectSeq(acc, LAMBDA t : t \in declared) ELSE acc)

\* getSupportedTimeStepsForPollutants looking at the first pollutant only
getSupportedTimeStepsForPollutants_FirstOnly(pollutantCodes) ==
    IF Len(pollutantCodes) = 0 THEN MODULEAIR_TIMESTEP_OPTIONS
    ELSE ReduceSupported(<<pollutantCodes[1]>>, 1, MODULEAIR_TIMESTEP_OPTIONS)

getSupportedTimeStepsForPollutants(pollutantCodes) ==
    IF Len(pollutantCodes) = 0 THEN MODULEAIR_TIMESTEP_OPTIONS
    ELSE ReduceSupported(pollutantCodes, 1, MODULEAIR_TIMESTEP_OPTIONS)

getInitialTimeStepForPollutants(pollutantCodes, fallback) ==
    LET supported == getSupportedTimeStepsForPollutants(pollutantCodes)
    IN  IF Len(supported) = 0 THEN fallback
        ELSE IF Includes(supported, fallback) THEN fallback ELSE supported[1]

\* adjustTimeRangeIfNeeded with ">=" for ">" in both comparisons
adjustTimeRangeIfNeeded_AtLeast(timeRange, timeStep) ==
    LET maxDays == getMaxHistoryDays(timeStep)
    IN  IF maxDays = 0 THEN [adjustedRange |-> timeRange, wasAdjusted |-> FALSE]
        ELSE IF timeRange.type = "preset" /\ timeRange.preset # ""
        THEN IF PresetEighths(timeRange.preset) >= maxDays * 8
             THEN [adjustedRange |-> CustomRange(IsoDate(now - maxDays * HoursPerDay), IsoDate(now)),
                   wasAdjusted |-> TRUE]
             ELSE [adjustedRange |-> timeRange, wasAdjusted |-> FALSE]
        ELSE IF timeRange.type = "custom"
        THEN LET startDate == ParseDate(timeRange.startDate)
                 endDate == ParseDate(timeRange.endDate)
                 daysDiff == CeilDiv(endDate - startDate, HoursPerDay)
             IN  IF daysDiff >= maxDays
                 THEN [adjustedRange |-> CustomRange(IsoDate(endDate - maxDays * HoursPerDay),
                                                     timeRange.endDate),
                       wasAdjusted |-> TRUE]
                 ELSE [adjustedRange |-> timeRange, wasAdjusted |-> FALSE]
        ELSE [adjustedRange |-> timeRange, wasAdjusted |-> FALSE]

\* adjustTimeRangeIfNeeded without the early return on a null maximum
adjustTimeRangeIfNeeded_NoNullCheck(timeRange, timeStep) ==
    LET maxDays == getMaxHistoryDays(timeStep)
    IN  IF timeRange.type = "preset" /\ timeRange.preset # ""
        THEN IF PresetEighths(timeRange.preset) > maxDays * 8
             THEN [adjustedRange |-> CustomRange(IsoDate(now - maxDays * HoursPerDay), IsoDate(now)),
                   wasAdjusted |-> TRUE]
             ELSE [adjustedRange |-> timeRange, wasAdjusted |-> FALSE]
        ELSE IF timeRange.type = "custom"
        THEN LET startDate == ParseDate(timeRange.startDate)
                 endDate == ParseDate(timeRange.endDate)
                 daysDiff == CeilDiv(endDate - startDate, HoursPerDay)
             IN  IF daysDiff > maxDays
                 THEN [adjustedRange |-> CustomRange(IsoDate(endDate - maxDays * HoursPerDay),
                                                     timeRange.endDate),
                       wasAdjusted |-> TRUE]
                 ELSE [adjustedRange |-> timeRange, wasAdjusted |-> FALSE]
        ELSE [adjustedRange |-> timeRange, wasAdjusted |-> FALSE]

\* adjustTimeRangeIfNeeded without the branch for custom ranges
adjustTimeRangeIfNeeded_PresetOnly(timeRange, timeStep) ==
    LET maxDays == getMaxHistoryDays(timeStep)
    IN  IF maxDays # 0 /\ timeRange.type = "preset" /\ timeRange.preset # ""
           /\ PresetEighths(timeRange.preset) > maxDays * 8
        THEN [adjustedRange |-> CustomRange(IsoDate(now - maxDays * HoursPerDay), IsoDate(now)),
              wasAdjusted |-> TRUE]
        ELSE [adjustedRange |-> timeRange, wasAdjusted |-> FALSE]

\* adjustTimeRangeIfNeeded ending every corrected range today
adjustTimeRangeIfNeeded_EndsToday(timeRange, timeStep) ==
    LET maxDays == getMaxHistoryDays(timeStep)
        corrected ==
            [adjustedRange |-> CustomRange(IsoDate(now - maxDays * HoursPerDay), IsoDate(now)),
             wasAdjusted |-> TRUE]
        unchanged == [adjustedRange |-> timeRange, wasAdjusted |-> FALSE]
    IN  IF maxDays = 0 THEN unchanged
        ELSE IF timeRange.type = "preset" /\ timeRange.preset # ""
        THEN IF PresetEighths(timeRange.preset) > maxDays * 8 THEN corrected ELSE unchanged
        ELSE IF timeRange.type = "custom"
        THEN IF CeilDiv(ParseDate(timeRange.endDate) - ParseDate(timeRange.startDate),
                        HoursPerDay) > maxDays
             THEN corrected ELSE unchanged
        ELSE unchanged

adjustTimeRangeIfNeeded(timeRange, timeStep) ==
    LET maxDays == getMaxHistoryDays(timeStep)
    IN  IF maxDays = 0 THEN [adjustedRange |-> timeRange, wasAdjusted |-> FALSE]
        ELSE IF timeRange.type = "preset" /\ timeRange.preset # ""
        THEN IF PresetEighths(timeRange.preset) > maxDays * 8
             THEN [adjustedRange |-> CustomRange(IsoDate(now - maxDays * HoursPerDay), IsoDate(now)),
                   wasAdjusted |-> TRUE]
             ELSE [adjustedRange |-> timeRange, wasAdjusted |-> FALSE]
        ELSE IF timeRange.type = "custom"
        THEN LET startDate == ParseDate(timeRange.startDate)
                 endDate == ParseDate(timeRange.endDate)
                 daysDiff == CeilDiv(endDate - startDate, HoursPerDay)
             IN  IF daysDiff > maxDays
                 THEN [adjustedRange |-> CustomRange(IsoDate(endDate - maxDays * HoursPerDay),
                                                     timeRange.endDate),
                       wasAdjusted |-> TRUE]
                 ELSE [adjustedRange |-> timeRange, wasAdjusted |-> FALSE]
        ELSE [adjustedRange |-> timeRange, wasAdjusted |-> FALSE]

\* isTimeStepValidForCurrentRange with "<" for "<=" in the final comparison
isTimeStepValidForCurrentRange_Strict(timeStep) ==
    LET maxDays == getMaxHistoryDays(timeStep)
        timeRange == state.chartControls.timeRange
    IN  IF maxDays = 0 THEN TRUE
        ELSE IF timeRange.type = "preset" /\ timeRange.preset # ""
        THEN PresetEighths(timeRange.preset) < maxDays * 8
        ELSE IF timeRange.type = "custom"
        THEN CeilDiv(ParseDate(timeRange.endDate) - ParseDate(timeRange.startDate), HoursPerDay)
                 < maxDays
        ELSE TRUE

isTimeStepValidForCurrentRange(timeStep) ==
    LET maxDays == getMaxHistoryDays(timeStep)
        timeRange == state.chartControls.timeRange
    IN  IF maxDays = 0 THEN TRUE
        ELSE IF timeRange.type = "preset" /\ timeRange.preset # ""
        THEN PresetEighths(timeRange.preset) <= maxDays * 8
        ELSE IF timeRange.type = "custom"
        THEN CeilDiv(ParseDate(timeRange.endDate) - ParseDate(timeRange.startDate), HoursPerDay)
                 <= maxDays
        ELSE TRUE

(***************************************************************************)
(* Station helpers                                                         *)
(***************************************************************************)
isPollutantAvailable(station, pollutantCode) ==
    station # NoStation /\ pollutantCode \in StationVariables[station]

\* getAvailablePollutants keeping the channels that are not in service
getAvailablePollutants_Inverted(station) ==
    IF station = NoStation THEN <<>>
    ELSE SelectSeq(PollutantOrder, LAMBDA c : ~isPollutantAvailable(station, c))

getAvailablePollutants(station) ==
    IF station = NoStation THEN <<>>
    ELSE SelectSeq(PollutantOrder, LAMBDA c : isPollutantAvailable(station, c))

\* the loadKey template string of the selection effect
loadKey(station, selectedPollutants, timeRange, timeStep) ==
    <<station, selectedPollutants,
      IF timeRange.type = "preset" THEN timeRange.preset ELSE "custom", timeStep>>


(***************************************************************************)
(* Dates sent to the fetch collaborator                                    *)
(***************************************************************************)
getDateRange(timeRange) ==
    IF timeRange.type = "custom"
    THEN [startDate |-> ParseDate(timeRange.startDate),
          endDate |-> ParseDate(timeRange.endDate) + 23]
    ELSE [startDate |-> now - (CASE timeRange.preset = "3h" -> 3
                                 [] timeRange.preset = "24h" -> 24
                                 [] timeRange.preset = "7d" -> 7 * 24
                                 [] timeRange.preset = "30d" -> 30 * 24
                                 [] OTHER -> 24),
          endDate |-> now]

(***************************************************************************)
(* Series store                                                            *)
(***************************************************************************)
\* a stored series: the points fetch number req returned, with the station,
\* range and step that fetch asked for; req = 0 marks an absent key
NoData == [req |-> 0, kind |-> "", station |-> NoStation, timeRange |-> PresetRange("24h"),
           timeStep |-> "", points |-> <<>>]

EmptyStore == [p \in Pollutants |-> NoData]

\* a sample of a series: d.value is a number, null or NaN
Num(v) == [kind |-> "number", value |-> v]

NullSample == [kind |-> "null", value |-> 0]

NaNSample == [kind |-> "NaN", value |-> 0]

\* series a fetch may resolve with
SamplePoints == {<<>>, <<Num(10), Num(20), Num(30)>>}

Series(f, points) ==
    [req |-> f.id, kind |-> f.kind, station |-> f.station, timeRange |-> f.timeRange,
     timeStep |-> f.timeStep, points |-> points]

StoreKeys(h) == {p \in Pollutants : h[p] # NoData}

(***************************************************************************)
(* Initial state                                                           *)
(***************************************************************************)
NoResult == [adjustedRange |-> PresetRange("24h"), wasAdjusted |-> FALSE]

\* stats = null
NoStats == [present |-> FALSE, sum |-> 0, count |-> 0, max |-> 0, min |-> 0]

PolicyIdle == [phase |-> "idle", timeRange |-> PresetRange("24h"), timeStep |-> "heure",
               codes |-> <<>>, first |-> NoResult, second |-> NoResult, supported |-> <<>>,
               stats |-> NoStats, valid |-> FALSE]

InitialControls ==
    [selectedPollutants |-> <<initialPollutant>>,
     timeRange |-> PresetRange("24h"),
     timeStep |-> getInitialTimeStepForPollutants(<<initialPollutant>>, "heure")]

\* lastOp of an event that is not a change of range or step
Op(name, p, n) ==
    [op |-> name, pollutant |-> p, sent |-> n, fresh |-> FALSE,
     prevRange |-> PresetRange("24h"), prevStep |-> ""]

\* lastOp of handleTimeRangeChange and handleTimeStepChange
ControlOp(name, n) ==
    [op |-> name, pollutant |-> "", sent |-> n, fresh |-> FALSE,
     prevRange |-> state.chartControls.timeRange, prevStep |-> state.chartControls.timeStep]

InitComponent ==
    /\ isOpen = FALSE
    /\ selectedStation = NoStation
    /\ state = [isOpen |-> FALSE, selectedStation |-> NoStation,
                chartControls |-> InitialControls,
                historicalData |-> EmptyStore,
                loading |-> FALSE, error |-> NoError, infoMessage |-> NoMessage]
    /\ isLoading = FALSE
    /\ loadingRef = FALSE
    /\ initialLoadDoneRef = NoKey
    /\ stationIdRef = NoStation
    /\ rafQueue = <<>>
    /\ fetchCount = 0
    /\ inflight = {}
    /\ unhandled = {}
    /\ timers = 0
    /\ lastOp = Op("init", "", 0)
    /\ lastLoad = 0

Init ==
    /\ now = Now0
    /\ fetchLimit = MaxFetches
    /\ pollutants = DefaultPollutants
    /\ policy = PolicyIdle
    /\ InitComponent

(***************************************************************************)
(* The panel exists (handlers can be invoked) only while the component     *)
(* renders something.                                                      *)
(***************************************************************************)
PanelRendered == isOpen /\ selectedStation # NoStation

\* one more fetch may be dispatched, or one more dispatch scheduled
Budget == fetchCount + Len(rafQueue) < fetchLimit

\* Closed, and nothing has happened since construction
NoPriorSession ==
    /\ ~state.isOpen
    /\ stationIdRef = NoStation
    /\ fetchCount = 0
    /\ rafQueue = <<>>
    /\ state.chartControls = InitialControls

\* loadHistoricalData reading the step of the rendered state, not its argument
LoadRequest_StaleStep(station, codes, timeRange, timeStep) ==
    [id |-> fetchCount + 1, kind |-> "load", station |-> station, pollutants |-> codes,
     timeRange |-> timeRange, timeStep |-> state.chartControls.timeStep,
     dates |-> getDateRange(timeRange)]

\* the fetch loadHistoricalData starts: one promise for the whole pollutant list
LoadRequest(station, codes, timeRange, timeStep) ==
    [id |-> fetchCount + 1, kind |-> "load", station |-> station, pollutants |-> codes,
     timeRange |-> timeRange, timeStep |-> timeStep, dates |-> getDateRange(timeRange)]

\* the fetch handlePollutantToggle starts for one pollutant
ToggleRequest(station, code, timeRange, timeStep) ==
    [id |-> fetchCount + 1, kind |-> "toggle", station |-> station, pollutants |-> <<code>>,
     timeRange |-> timeRange, timeStep |-> timeStep, dates |-> getDateRange(timeRange)]

\* the request key of a fetch: station, pollutant set, range, step
RequestKey(f) == <<f.station, ToSet(f.pollutants), f.timeRange, f.timeStep>>

(***************************************************************************)
(* useEffect on [isOpen, selectedStation, ...]                             *)
(***************************************************************************)
\* isNewStation taking every delivered station for a new one
isNewStation_Always(station) == TRUE

\* currentStationId !== stationIdRef.current
isNewStation(station) == station # stationIdRef

SelectionEffect(open, station) ==
    /\ open # isOpen \/ station # selectedStation \/ station # NoStation
    /\ isOpen' = open
    /\ selectedStation' = station
    /\ IF ~open
       THEN /\ stationIdRef' = NoStation
            /\ state' = [state EXCEPT !.isOpen = FALSE, !.selectedStation = NoStation,
                                      !.historicalData = EmptyStore,
                                      !.loading = FALSE, !.error = NoError]
            /\ isLoading' = FALSE
            /\ loadingRef' = FALSE
            /\ initialLoadDoneRef' = NoKey
            /\ UNCHANGED rafQueue
            /\ lastOp' = Op("close", "", 0)
       ELSE IF station = NoStation
       THEN /\ UNCHANGED <<stationIdRef, state, isLoading, loadingRef, initialLoadDoneRef, rafQueue>>
            /\ lastOp' = Op("deselect", "", 0)
       ELSE IF isNewStation(station)
       THEN LET availablePollutants == getAvailablePollutants(station)
                selectedPollutants ==
                    IF Includes(availablePollutants, initialPollutant) THEN <<initialPollutant>>
                    ELSE IF Len(availablePollutants) > 0 THEN <<availablePollutants[1]>>
                    ELSE <<>>
                nextTimeStep == getInitialTimeStepForPollutants(selectedPollutants,
                                                                state.chartControls.timeStep)
                initialTimeRange == PresetRange("24h")
                key == loadKey(station, selectedPollutants, initialTimeRange, nextTimeStep)
            IN  /\ stationIdRef' = station
                /\ state' = [state EXCEPT !.isOpen = open, !.selectedStation = station,
                                          !.chartControls.selectedPollutants = selectedPollutants,
                                          !.chartControls.timeStep = nextTimeStep,
                                          !.chartControls.timeRange = initialTimeRange,
                                          !.historicalData = EmptyStore,
                                          !.loading = FALSE, !.error = NoError]
                /\ initialLoadDoneRef' = NoKey
                /\ IF Len(selectedPollutants) > 0 /\ ~loadingRef /\ NoKey # key
                   THEN /\ Budget
                        /\ rafQueue' = Append(rafQueue,
                               [station |-> station, selectedPollutants |-> selectedPollutants,
                                timeRange |-> initialTimeRange, timeStep |-> nextTimeStep,
                                loadKey |-> key])
                   ELSE UNCHANGED rafQueue
                /\ UNCHANGED <<isLoading, loadingRef>>
                /\ lastOp' = [Op("select", "", 0) EXCEPT !.fresh = NoPriorSession]
       ELSE /\ state' = [state EXCEPT !.isOpen = open, !.selectedStation = station]
            /\ UNCHANGED <<stationIdRef, isLoading, loadingRef, initialLoadDoneRef, rafQueue>>
            /\ lastOp' = Op("reselect", "", 0)
    /\ UNCHANGED <<fetchCount, inflight, unhandled, timers, now, fetchLimit, pollutants, policy, lastLoad>>

(***************************************************************************)
(* The requestAnimationFrame callback scheduled by the selection effect    *)
(***************************************************************************)
RafCallback ==
    /\ rafQueue # <<>>
    /\ LET cb == Head(rafQueue)
       IN  IF ~loadingRef /\ initialLoadDoneRef # cb.loadKey
           THEN /\ loadingRef' = TRUE
                /\ isLoading' = TRUE
                /\ initialLoadDoneRef' = cb.loadKey
                /\ fetchCount' = fetchCount + 1
                /\ inflight' = inflight \cup {LoadRequest(cb.station, cb.selectedPollutants,
                                                          cb.timeRange, cb.timeStep)}
                /\ state' = [state EXCEPT !.loading = TRUE, !.error = NoError]
                /\ lastLoad' = fetchCount + 1
                /\ lastOp' = [Op("raf", "", 1) EXCEPT !.fresh = lastOp.op = "select" /\ lastOp.fresh]
           ELSE /\ UNCHANGED <<loadingRef, isLoading, initialLoadDoneRef, fetchCount, inflight,
                               state, lastLoad>>
                /\ lastOp' = Op("raf", "", 0)
    /\ rafQueue' = Tail(rafQueue)
    /\ UNCHANGED <<isOpen, selectedStation, stationIdRef, unhandled, timers, now, fetchLimit, pollutants, policy>>

(***************************************************************************)
(* handlePollutantToggle                                                   *)
(***************************************************************************)
\* the condition of the incremental fetch without the look at the store
needsFetch_IgnoresStore(pollutant) ==
    selectedStation # NoStation

\* the condition of the incremental fetch:
\* selectedStation && !state.historicalData[pollutant]
needsFetch(pollutant) ==
    selectedStation # NoStation /\ state.historicalData[pollutant] = NoData

handlePollutantToggle(pollutant) ==
    /\ PanelRendered
    /\ isPollutantAvailable(selectedStation, pollutant)
    /\ LET selected == state.chartControls.selectedPollutants
           newSelectedPollutants ==
               IF Includes(selected, pollutant)
               THEN SelectSeq(selected, LAMBDA c : c # pollutant)
               ELSE Append(selected, pollutant)
           fetches == needsFetch(pollutant)
       IN  /\ state' = [state EXCEPT !.chartControls.selectedPollutants = newSelectedPollutants]
           /\ IF fetches
              THEN /\ Budget
                   /\ fetchCount' = fetchCount + 1
                   /\ inflight' = inflight \cup
                          {ToggleRequest(selectedStation, pollutant,
                                         state.chartControls.timeRange,
                                         state.chartControls.timeStep)}
              ELSE UNCHANGED <<fetchCount, inflight>>
           /\ lastOp' = Op("togglePollutant", pollutant, IF fetches THEN 1 ELSE 0)
    /\ UNCHANGED <<isOpen, selectedStation, isLoading, loadingRef, initialLoadDoneRef,
                   stationIdRef, rafQueue, unhandled, timers, now, fetchLimit, pollutants, policy, lastLoad>>

(***************************************************************************)
(* handleTimeRangeChange                                                   *)
(***************************************************************************)
handleTimeRangeChange(timeRange) ==
    /\ PanelRendered
    /\ LET adj == adjustTimeRangeIfNeeded(timeRange, state.chartControls.timeStep)
           maxDays == getMaxHistoryDays(state.chartControls.timeStep)
           notice == adj.wasAdjusted /\ maxDays # 0
           loads == selectedStation # NoStation
       IN  /\ IF notice
              THEN timers < MaxTimers /\ timers' = timers + 1
              ELSE UNCHANGED timers
           /\ IF loads
              THEN /\ Budget
                   /\ fetchCount' = fetchCount + 1
                   /\ inflight' = inflight \cup
                          {LoadRequest(selectedStation, state.chartControls.selectedPollutants,
                                       adj.adjustedRange, state.chartControls.timeStep)}
                   /\ lastLoad' = fetchCount + 1
              ELSE UNCHANGED <<fetchCount, inflight, lastLoad>>
           /\ state' = [state EXCEPT !.chartControls.timeRange = adj.adjustedRange,
                                     !.infoMessage = IF notice THEN maxDays ELSE NoMessage,
                                     !.loading = IF loads THEN TRUE ELSE @,
                                     !.error = IF loads THEN NoError ELSE @]
           /\ lastOp' = ControlOp("setTimeRange", IF loads THEN 1 ELSE 0)
    /\ UNCHANGED <<isOpen, selectedStation, isLoading, loadingRef, initialLoadDoneRef,
                   stationIdRef, rafQueue, unhandled, now, fetchLimit, pollutants, policy>>

(***************************************************************************)
(* handleTimeStepChange                                                    *)
(***************************************************************************)
\* handleTimeStepChange without the early return on an unsupported step
handleTimeStepChange_NoSupportCheck(timeStep) ==
    /\ PanelRendered
    /\ LET adj == adjustTimeRangeIfNeeded(state.chartControls.timeRange, timeStep)
           maxDays == getMaxHistoryDays(timeStep)
           notice == adj.wasAdjusted /\ maxDays # 0
       IN  /\ IF notice
              THEN timers < MaxTimers /\ timers' = timers + 1
              ELSE UNCHANGED timers
           /\ Budget
           /\ fetchCount' = fetchCount + 1
           /\ inflight' = inflight \cup
                  {LoadRequest(selectedStation, state.chartControls.selectedPollutants,
                               adj.adjustedRange, timeStep)}
           /\ lastLoad' = fetchCount + 1
           /\ state' = [state EXCEPT !.chartControls.timeStep = timeStep,
                                     !.chartControls.timeRange = adj.adjustedRange,
                                     !.infoMessage = IF notice THEN maxDays ELSE NoMessage,
                                     !.loading = TRUE,
                                     !.error = NoError]
           /\ lastOp' = ControlOp("setTimeStep", 1)
    /\ UNCHANGED <<isOpen, selectedStation, isLoading, loadingRef, initialLoadDoneRef,
                   stationIdRef, rafQueue, unhandled, now, fetchLimit, pollutants, policy>>

handleTimeStepChange(timeStep) ==
    /\ PanelRendered
    /\ LET supportedTimeSteps ==
               getSupportedTimeStepsForPollutants(state.chartControls.selectedPollutants)
           adj == adjustTimeRangeIfNeeded(state.chartControls.timeRange, timeStep)
           maxDays == getMaxHistoryDays(timeStep)
           notice == adj.wasAdjusted /\ maxDays # 0
           loads == selectedStation # NoStation
       IN  IF ~Includes(supportedTimeSteps, timeStep)
           THEN /\ UNCHANGED <<state, fetchCount, inflight, timers, lastLoad>>
                /\ lastOp' = ControlOp("setTimeStepRefused", 0)
           ELSE /\ IF notice
                   THEN timers < MaxTimers /\ timers' = timers + 1
                   ELSE UNCHANGED timers
                /\ IF loads
                   THEN /\ Budget
                        /\ fetchCount' = fetchCount + 1
                        /\ inflight' = inflight \cup
                               {LoadRequest(selectedStation,
                                            state.chartControls.selectedPollutants,
                                            adj.adjustedRange, timeStep)}
                        /\ lastLoad' = fetchCount + 1
                   ELSE UNCHANGED <<fetchCount, inflight, lastLoad>>
                /\ state' = [state EXCEPT !.chartControls.timeStep = timeStep,
                                          !.chartControls.timeRange = adj.adjustedRange,
                                          !.infoMessage = IF notice THEN maxDays ELSE NoMessage,
                                          !.loading = IF loads THEN TRUE ELSE @,
                                          !.error = IF loads THEN NoError ELSE @]
                /\ lastOp' = ControlOp("setTimeStep", IF loads THEN 1 ELSE 0)
    /\ UNCHANGED <<isOpen, selectedStation, isLoading, loadingRef, initialLoadDoneRef,
                   stationIdRef, rafQueue, unhandled, now, fetchLimit, pollutants, policy>>

\* the setTimeout callback that clears the notice
InfoTimeout ==
    /\ timers > 0
    /\ timers' = timers - 1
    /\ state' = [state EXCEPT !.infoMessage = NoMessage]
    /\ lastOp' = Op("infoTimeout", "", 0)
    /\ UNCHANGED <<isOpen, selectedStation, isLoading, loadingRef, initialLoadDoneRef,
                   stationIdRef, rafQueue, fetchCount, inflight, unhandled, now, fetchLimit, pollutants,
                   policy, lastLoad>>

(***************************************************************************)
(* Settlement of loadHistoricalData                                        *)
(***************************************************************************)
LoadResolve(f, points) ==
    /\ f \in inflight
    /\ f.kind = "load"
    /\ LET newHistoricalData ==
               [p \in Pollutants |->
                   IF p \in ToSet(f.pollutants) THEN Series(f, points) ELSE NoData]
       IN  state' = [state EXCEPT !.historicalData = newHistoricalData, !.loading = FALSE]
    /\ isLoading' = FALSE
    /\ loadingRef' = FALSE
    /\ inflight' = inflight \ {f}
    /\ lastOp' = Op("loadResolved", "", 0)
    /\ UNCHANGED <<isOpen, selectedStation, initialLoadDoneRef, stationIdRef, rafQueue,
                   fetchCount, unhandled, timers, now, fetchLimit, pollutants, policy, lastLoad>>

LoadReject(f) ==
    /\ f \in inflight
    /\ f.kind = "load"
    /\ f.pollutants # <<>>
    /\ state' = [state EXCEPT !.loading = FALSE, !.error = LoadError]
    /\ isLoading' = FALSE
    /\ loadingRef' = FALSE
    /\ inflight' = inflight \ {f}
    /\ lastOp' = Op("loadRejected", "", 0)
    /\ UNCHANGED <<isOpen, selectedStation, initialLoadDoneRef, stationIdRef, rafQueue,
                   fetchCount, unhandled, timers, now, fetchLimit, pollutants, policy, lastLoad>>

(***************************************************************************)
(* Settlement of the incremental fetch of handlePollutantToggle            *)
(***************************************************************************)
\* a .then of the incremental fetch that replaces the whole store
ToggleResolve_ReplacesAll(f, points) ==
    /\ f \in inflight
    /\ f.kind = "toggle"
    /\ state' = [state EXCEPT !.historicalData =
                     [p \in Pollutants |-> IF p = f.pollutants[1] THEN Series(f, points) ELSE NoData]]
    /\ inflight' = inflight \ {f}
    /\ lastOp' = Op("toggleResolved", f.pollutants[1], 0)
    /\ UNCHANGED <<isOpen, selectedStation, isLoading, loadingRef, initialLoadDoneRef,
                   stationIdRef, rafQueue, fetchCount, unhandled, timers, now, fetchLimit,
                   pollutants, policy, lastLoad>>

ToggleResolve(f, points) ==
    /\ f \in inflight
    /\ f.kind = "toggle"
    /\ state' = [state EXCEPT !.historicalData[f.pollutants[1]] = Series(f, points)]
    /\ inflight' = inflight \ {f}
    /\ lastOp' = Op("toggleResolved", f.pollutants[1], 0)
    /\ UNCHANGED <<isOpen, selectedStation, isLoading, loadingRef, initialLoadDoneRef,
                   stationIdRef, rafQueue, fetchCount, unhandled, timers, now, fetchLimit, pollutants,
                   policy, lastLoad>>

\* a rejection handler of the incremental fetch that resets the store
ToggleReject_ClearsStore(f) ==
    /\ f \in inflight
    /\ f.kind = "toggle"
    /\ inflight' = inflight \ {f}
    /\ state' = [state EXCEPT !.historicalData = EmptyStore, !.error = LoadError]
    /\ lastOp' = Op("toggleRejected", f.pollutants[1], 0)
    /\ UNCHANGED <<isOpen, selectedStation, isLoading, loadingRef, initialLoadDoneRef,
                   stationIdRef, rafQueue, fetchCount, unhandled, timers, now, fetchLimit,
                   pollutants, policy, lastLoad>>

ToggleReject(f) ==
    /\ f \in inflight
    /\ f.kind = "toggle"
    /\ inflight' = inflight \ {f}
    /\ unhandled' = unhandled \cup {f.id}
    /\ lastOp' = Op("toggleRejected", f.pollutants[1], 0)
    /\ UNCHANGED <<isOpen, selectedStation, state, isLoading, loadingRef, initialLoadDoneRef,
                   stationIdRef, rafQueue, fetchCount, timers, now, fetchLimit, pollutants, policy, lastLoad>>

(***************************************************************************)
(* The controller                                                          *)
(***************************************************************************)
Next ==
    \/ \E station \in Stations : SelectionEffect(TRUE, station)
    \/ SelectionEffect(TRUE, NoStation)
    \/ SelectionEffect(FALSE, NoStation)
    \/ RafCallback
    \/ \E pollutant \in Pollutants : handlePollutantToggle(pollutant)
    \/ \E timeRange \in RangeInputs : handleTimeRangeChange(timeRange)
    \/ \E timeStep \in StepInputs : handleTimeStepChange(timeStep)
    \/ InfoTimeout
    \/ \E f \in inflight, points \in SamplePoints : LoadResolve(f, points)
    \/ \E f \in inflight : LoadReject(f)
    \/ \E f \in inflight, points \in SamplePoints : ToggleResolve(f, points)
    \/ \E f \in inflight : ToggleReject(f)

Spec == Init /\ [][Next]_vars

(***************************************************************************)
(* One session: the panel stays open on one station while the user works   *)
(* the range and step controls.                                            *)
(***************************************************************************)
InitSession ==
    /\ now = Now0
    /\ fetchLimit = MaxFetches + 1
    /\ pollutants = DefaultPollutants
    /\ policy = PolicyIdle
    /\ InitComponent

NextSession ==
    \/ SelectionEffect(TRUE, "A")
    \/ RafCallback
    \/ \E timeRange \in SessionRanges : handleTimeRangeChange(timeRange)
    \/ \E timeStep \in StepInputs : handleTimeStepChange(timeStep)
    \/ InfoTimeout
    \/ \E f \in inflight, points \in SamplePoints : LoadResolve(f, points)
    \/ \E f \in inflight : LoadReject(f)

SpecSession == InitSession /\ [][NextSession]_vars

(***************************************************************************)
(* The range/step policy on its own: adjustTimeRangeIfNeeded applied to a  *)
(* range and a step, then to its own result, while the clock runs.         *)
(***************************************************************************)
componentVars == <<isOpen, selectedStation, state, isLoading, loadingRef, initialLoadDoneRef,
                   stationIdRef, rafQueue, fetchCount, inflight, unhandled, timers,
                   lastOp, lastLoad>>

\* clock readings: day 40 13:00, day 41 00:00, day 41 13:00
NowInputs == {Now0, Now0 + 11, Now0 + HoursPerDay}

PolicyRanges ==
    {PresetRange(p) : p \in Presets} \cup
    UNION {{CustomRange(s, e) : e \in s..MaxDay} : s \in 0..MaxDay}

InitPolicy ==
    /\ now \in NowInputs
    /\ fetchLimit = MaxFetches
    /\ pollutants = DefaultPollutants
    /\ policy \in {[PolicyIdle EXCEPT !.phase = "input", !.timeRange = r, !.timeStep = s] :
                       r \in PolicyRanges, s \in TimeSteps}
    /\ InitComponent

Reconcile ==
    /\ policy.phase = "input"
    /\ policy' = [policy EXCEPT !.phase = "once",
                                !.first = adjustTimeRangeIfNeeded(policy.timeRange, policy.timeStep)]
    /\ UNCHANGED <<componentVars, now, fetchLimit, pollutants>>

ClockAdvance ==
    /\ policy.phase = "once"
    /\ \E n \in NowInputs : n > now /\ now' = n
    /\ UNCHANGED <<componentVars, fetchLimit, policy, pollutants>>

ReconcileAgain ==
    /\ policy.phase = "once"
    /\ policy' = [policy EXCEPT !.phase = "twice",
                                !.second = adjustTimeRangeIfNeeded(policy.first.adjustedRange,
                                                                   policy.timeStep)]
    /\ UNCHANGED <<componentVars, now, fetchLimit, pollutants>>

NextPolicy == Reconcile \/ ClockAdvance \/ ReconcileAgain

SpecPolicy == InitPolicy /\ [][NextPolicy]_vars

(***************************************************************************)
(* The supported steps on their own: getSupportedTimeStepsForPollutants    *)
(* applied to a selection, for every pollutants table.                     *)
(***************************************************************************)
\* codes given to the policy: those of the table and one the table lacks
PolicyCodes == Pollutants \cup {"nox"}

CodeSeqs == UNION {[1..n -> PolicyCodes] : n \in 0..MaxCodes}

InitSteps ==
    /\ now = Now0
    /\ fetchLimit = MaxFetches
    /\ pollutants \in [Pollutants -> SUBSET TimeSteps]
    /\ policy \in {[PolicyIdle EXCEPT !.phase = "codes", !.codes = c] : c \in CodeSeqs}
    /\ InitComponent

ComputeSupported ==
    /\ policy.phase = "codes"
    /\ policy' = [policy EXCEPT !.phase = "steps",
                                !.supported = getSupportedTimeStepsForPollutants(policy.codes)]
    /\ UNCHANGED <<componentVars, now, fetchLimit, pollutants>>

NextSteps == ComputeSupported

SpecSteps == InitSteps /\ [][NextSteps]_vars


(***************************************************************************)
(* Statistics of the first selected pollutant (useMemo stats).  avg is     *)
(* kept as the pair sum, count: avg = sum / count.                         *)
(***************************************************************************)
RECURSIVE SumSeq(_)
SumSeq(values) == IF values = <<>> THEN 0 ELSE Head(values) + SumSeq(Tail(values))

RECURSIVE MaxSeq(_)
MaxSeq(values) ==
    IF Len(values) = 1 THEN values[1]
    ELSE LET rest == MaxSeq(Tail(values))
         IN  IF Head(values) > rest THEN Head(values) ELSE rest

RECURSIVE MinSeq(_)
MinSeq(values) ==
    IF Len(values) = 1 THEN values[1]
    ELSE LET rest == MinSeq(Tail(values))
         IN  IF Head(values) < rest THEN Head(values) ELSE rest

\* data.map((d) => d.value).filter((v) => v !== null && !isNaN(v))
ValidValues(data) ==
    LET kept == SelectSeq(data, LAMBDA d : d.kind = "number")
    IN  [i \in 1..Len(kept) |-> kept[i].value]

\* stats without the filter: a missing value counts as 0
stats_NoFilter ==
    LET selected == state.chartControls.selectedPollutants
    IN  IF Len(selected) = 0 \/ state.historicalData[selected[1]] = NoData THEN NoStats
        ELSE LET data == state.historicalData[selected[1]].points
                 values == [i \in 1..Len(data) |-> data[i].value]
             IN  IF Len(data) = 0 THEN NoStats
                 ELSE [present |-> TRUE, sum |-> SumSeq(values), count |-> Len(values),
                       max |-> MaxSeq(values), min |-> MinSeq(values)]

stats ==
    LET selected == state.chartControls.selectedPollutants
    IN  IF Len(selected) = 0 \/ state.historicalData[selected[1]] = NoData THEN NoStats
        ELSE LET data == state.historicalData[selected[1]].points
                 values == ValidValues(data)
             IN  IF Len(data) = 0 THEN NoStats
                 ELSE IF Len(values) = 0 THEN NoStats
                 ELSE [present |-> TRUE, sum |-> SumSeq(values), count |-> Len(values),
                       max |-> MaxSeq(values), min |-> MinSeq(values)]

\* samples and series given to the statistics
StatSamples == {Num(10), Num(20), Num(30), NullSample, NaNSample}

StatSeries == UNION {[1..n -> StatSamples] : n \in 0..MaxSamples}

Stored(points) ==
    [req |-> 1, kind |-> "load", station |-> "A", timeRange |-> PresetRange("24h"),
     timeStep |-> "heure", points |-> points]

StatSelections == {<<>>, <<"pm25">>, <<"pm10">>, <<"pm25", "pm10">>, <<"pm10", "pm25">>}

InitStats ==
    /\ now = Now0
    /\ fetchLimit = MaxFetches
    /\ pollutants = DefaultPollutants
    /\ policy = [PolicyIdle EXCEPT !.phase = "series"]
    /\ isOpen = TRUE
    /\ selectedStation = "A"
    /\ \E selected \in StatSelections :
       \E first \in {NoData} \cup {Stored(points) : points \in StatSeries} :
       \E second \in {NoData, Stored(<<Num(10)>>)} :
           state = [isOpen |-> TRUE, selectedStation |-> "A",
                    chartControls |-> [InitialControls EXCEPT !.selectedPollutants = selected],
                    historicalData |-> [p \in Pollutants |-> IF p = "pm25" THEN first ELSE second],
                    loading |-> FALSE, error |-> NoError, infoMessage |-> NoMessage]
    /\ isLoading = FALSE
    /\ loadingRef = FALSE
    /\ initialLoadDoneRef = NoKey
    /\ stationIdRef = "A"
    /\ rafQueue = <<>>
    /\ fetchCount = 1
    /\ inflight = {}
    /\ unhandled = {}
    /\ timers = 0
    /\ lastOp = Op("init", "", 0)
    /\ lastLoad = 1

ComputeStats ==
    /\ policy.phase = "series"
    /\ policy' = [policy EXCEPT !.phase = "stats", !.stats = stats]
    /\ UNCHANGED <<componentVars, now, fetchLimit, pollutants>>

NextStats == ComputeStats

SpecStats == InitStats /\ [][NextStats]_vars

(***************************************************************************)
(* Properties of the controller                                            *)
(***************************************************************************)
Store == state.historicalData

Controls == state.chartControls

\* every fetch has settled and no dispatch is pending
Quiescent == inflight = {} /\ rafQueue = <<>>

\* effective duration in days of a custom range
CustomDays(timeRange) ==
    CeilDiv(ParseDate(timeRange.endDate) - ParseDate(timeRange.startDate), HoursPerDay)

\* C1: while a station is shown, the series store never contains a series
\* that was fetched for another station (a fetch of station A that settles
\* after station B was selected is discarded).
C1_NoSeriesOfAnotherStation ==
    state.selectedStation # NoStation =>
        \A p \in Pollutants : Store[p] # NoData => Store[p].station = state.selectedStation

\* C2: once every fetch has settled (and none of them left the view in the
\* Error state), no series in the store comes from a full load older than
\* the one dispatched by the last control change: the last load decides what
\* is shown, whatever the order of the settlements.
C2_LastLoadDecidesStore ==
    (Quiescent /\ state.error = NoError) =>
        \A p \in Pollutants :
            (Store[p] # NoData /\ Store[p].kind = "load") => Store[p].req = lastLoad

\* C3: no two full loads with the same request key (station, pollutant set,
\* range, step) are in flight at once, whichever event dispatched them.
C3_NoEqualKeysInFlight ==
    \A f \in inflight, g \in inflight :
        (f.kind = "load" /\ g.kind = "load" /\ RequestKey(f) = RequestKey(g)) => f.id = g.id

\* C4: a first selection, from Closed with no prior session, of a station
\* where the caller's default pollutant is available selects that pollutant,
\* sets the range to the 24h preset and schedules one dispatch; when that
\* dispatch runs, exactly one fetch, for that station, is sent and the view
\* is Loading for that station.
C4_FirstSelectionLoadsOnce ==
    /\ (lastOp.op = "select" /\ lastOp.fresh /\ initialPollutant \in StationVariables[stationIdRef]) =>
          /\ state.selectedStation = stationIdRef
          /\ Controls.selectedPollutants = <<initialPollutant>>
          /\ Controls.timeRange = PresetRange("24h")
          /\ Len(rafQueue) = 1
          /\ rafQueue[1].station = stationIdRef
          /\ fetchCount = 0
    /\ (lastOp.op = "raf" /\ lastOp.fresh /\ initialPollutant \in StationVariables[stationIdRef]) =>
          /\ lastOp.sent = 1
          /\ fetchCount = 1
          /\ rafQueue = <<>>
          /\ state.loading
          /\ state.selectedStation = stationIdRef
          /\ Controls.timeRange = PresetRange("24h")
          /\ \E f \in inflight :
                /\ inflight = {f}
                /\ f.kind = "load"
                /\ f.station = stationIdRef
                /\ f.pollutants = <<initialPollutant>>
                /\ f.timeRange = PresetRange("24h")

C4_Witness ==
    /\ lastOp.op = "raf"
    /\ lastOp.fresh
    /\ stationIdRef = "A"
    /\ state.loading
    /\ Cardinality(inflight) = 1

\* C5: changing the step from hourly to instantaneous while the range is the
\* 7-day preset makes the range a custom range of 1 day ending today and
\* dispatches exactly one load, carrying that range and the new step.
C5_StepChangeCorrectsRange ==
    (/\ lastOp.op = "setTimeStep"
     /\ lastOp.prevRange = PresetRange("7d")
     /\ lastOp.prevStep = "heure"
     /\ Controls.timeStep = "instantane") =>
        /\ Controls.timeRange.type = "custom"
        /\ Controls.timeRange.endDate = IsoDate(now)
        /\ CustomDays(Controls.timeRange) = 1
        /\ lastOp.sent = 1
        /\ \E f \in inflight :
              /\ f.id = fetchCount
              /\ f.kind = "load"
              /\ f.timeRange = Controls.timeRange
              /\ f.timeStep = "instantane"

C5_Witness ==
    /\ lastOp.op = "setTimeStep"
    /\ lastOp.prevRange = PresetRange("7d")
    /\ lastOp.prevStep = "heure"
    /\ Controls.timeStep = "instantane"
    /\ state.infoMessage = 1

\* C6: toggling off a selected pollutant never dispatches a fetch, also when
\* that pollutant has no series in the store.
C6_ToggleOffSendsNothing ==
    [][\A p \in Pollutants :
          (handlePollutantToggle(p) /\ Includes(Controls.selectedPollutants, p)) =>
              (fetchCount' = fetchCount /\ inflight' = inflight)]_vars

\* C7: toggling on an unselected pollutant whose series is in the store
\* (an empty series included) adds it to the selection and dispatches no
\* fetch.
C7_ToggleOnCachedSendsNothing ==
    [][\A p \in Pollutants :
          (/\ handlePollutantToggle(p)
           /\ ~Includes(Controls.selectedPollutants, p)
           /\ Store[p] # NoData) =>
              /\ Includes(state'.chartControls.selectedPollutants, p)
              /\ fetchCount' = fetchCount
              /\ inflight' = inflight
              /\ state'.historicalData = Store]_vars

C7_Witness ==
    /\ lastOp.op = "togglePollutant"
    /\ lastOp.sent = 0
    /\ Includes(Controls.selectedPollutants, lastOp.pollutant)
    /\ Store[lastOp.pollutant] # NoData
    /\ Store[lastOp.pollutant].points = <<>>


(***************************************************************************)
(* Properties of the range/step policy                                     *)
(***************************************************************************)
\* C8: reconciling an already reconciled range at the same step returns it
\* unchanged, with wasAdjusted = FALSE, whatever the clock did meanwhile.
C8_ReconcileIdempotent ==
    policy.phase = "twice" =>
        /\ policy.second.adjustedRange = policy.first.adjustedRange
        /\ policy.second.wasAdjusted = FALSE

C8_Witness ==
    /\ policy.phase = "twice"
    /\ policy.first.wasAdjusted
    /\ policy.first.adjustedRange # policy.timeRange

\* C9: for a step whose maximum history is unbounded, reconcile returns the
\* range it was given and wasAdjusted = FALSE.
C9_UnboundedStepNeverCorrects ==
    (policy.phase \in {"once", "twice"} /\ getMaxHistoryDays(policy.timeStep) = 0) =>
        /\ policy.first.adjustedRange = policy.timeRange
        /\ policy.first.wasAdjusted = FALSE

C9_Witness ==
    /\ policy.phase = "once"
    /\ getMaxHistoryDays(policy.timeStep) = 0
    /\ policy.timeRange = CustomRange(0, MaxDay)

\* declared supportedTimeSteps of a code ({}: none declared, or no such code)
DeclaredSteps(code) == IF code \in DOMAIN pollutants THEN pollutants[code] ELSE {}

\* the steps every pollutant of the selection that declares steps declares
DeclaredIntersection(codes) ==
    {t \in TimeSteps : \A i \in 1..Len(codes) :
        DeclaredSteps(codes[i]) = {} \/ t \in DeclaredSteps(codes[i])}

\* C10: for a selection whose declared step sets have an empty intersection,
\* the supported steps are the full enumerated list, not the empty list.
C10_EmptyIntersectionGivesAll ==
    (policy.phase = "steps" /\ DeclaredIntersection(policy.codes) = {}) =>
        policy.supported = MODULEAIR_TIMESTEP_OPTIONS

\* C11: the supported steps of the empty selection are the full enumerated
\* list, and those of a selection whose declared step sets have a non-empty
\* intersection are exactly that intersection, in the order of the list (a
\* pollutant that declares no steps restricts nothing).
C11_SupportedIsIntersection ==
    policy.phase = "steps" =>
        /\ policy.codes = <<>> => policy.supported = MODULEAIR_TIMESTEP_OPTIONS
        /\ DeclaredIntersection(policy.codes) # {} =>
              policy.supported = SelectSeq(MODULEAIR_TIMESTEP_OPTIONS,
                                           LAMBDA t : t \in DeclaredIntersection(policy.codes))

C11_Witness ==
    /\ policy.phase = "steps"
    /\ Len(policy.codes) = 2
    /\ policy.codes[1] # policy.codes[2]
    /\ DeclaredSteps(policy.codes[1]) = {"instantane", "heure", "jour"}
    /\ DeclaredSteps(policy.codes[2]) = {"quartHeure", "heure", "jour"}
    /\ policy.supported = <<"heure", "jour">>

\* C12: while a station is selected, the active time step is one of the
\* supported steps of the selected pollutants, also after a pollutant that
\* does not support the active step has been toggled on.
C12_StepIsSupported ==
    state.selectedStation # NoStation =>
        Includes(getSupportedTimeStepsForPollutants(Controls.selectedPollutants),
                 Controls.timeStep)

\* effective duration of a range in eighths of a day: the preset's entry of
\* presetDays, or the daysDiff of a custom range
EffectiveEighths(timeRange) ==
    IF timeRange.type = "preset" THEN PresetEighths(timeRange.preset)
    ELSE CustomDays(timeRange) * 8

C14_StoreKeysAreSelected ==
    StoreKeys(Store) \subseteq ToSet(Controls.selectedPollutants)

\* the values of the valid samples of the first selected pollutant's series
\* ({} when the selection is empty or that pollutant has no series)
PrimaryValues ==
    IF Controls.selectedPollutants = <<>> \/ Store[Controls.selectedPollutants[1]] = NoData
    THEN <<>>
    ELSE ValidValues(Store[Controls.selectedPollutants[1]].points)

\* C15: statistics come from the stored series of the first selected
\* pollutant only, missing samples dropped: they are absent when the
\* selection is empty, that pollutant has no series or no valid sample is
\* left; otherwise avg, max and min are those of the valid samples, and the
\* series 10, 20, 30 gives avg 20, max 30, min 10.
C15_StatsOfPrimarySeries ==
    policy.phase = "stats" =>
        /\ policy.stats.present <=> PrimaryValues # <<>>
        /\ ~policy.stats.present => policy.stats = NoStats
        /\ policy.stats.present =>
              /\ policy.stats.count = Len(PrimaryValues)
              /\ policy.stats.sum = SumSeq(PrimaryValues)
              /\ policy.stats.max \in ToSet(PrimaryValues)
              /\ policy.stats.min \in ToSet(PrimaryValues)
              /\ \A v \in ToSet(PrimaryValues) : policy.stats.min <= v /\ v <= policy.stats.max
        /\ PrimaryValues = <<10, 20, 30>> =>
              /\ policy.stats.sum = 20 * policy.stats.count
              /\ policy.stats.max = 30
              /\ policy.stats.min = 10

C15_Witness ==
    /\ policy.phase = "stats"
    /\ Controls.selectedPollutants = <<"pm25", "pm10">>
    /\ Store["pm25"].points = <<Num(30), NullSample, Num(10)>>
    /\ Store["pm10"] # NoData
    /\ policy.stats = [present |-> TRUE, sum |-> 40, count |-> 2, max |-> 30, min |-> 10]

\* C16: when a full load is rejected the view is in the Error state with
\* the fixed message, no longer loading, and the series store is empty.
C16_RejectedLoadLeavesEmptyStore ==
    lastOp.op = "loadRejected" =>
        /\ state.error = LoadError
        /\ ~state.loading
        /\ Store = EmptyStore

\* C17: every rejection of the fetch collaborator, of a full load or of the
\* incremental fetch of a toggle, is caught and puts the view in the Error
\* state; no rejection stays unhandled.
C17_EveryRejectionIsCaught ==
    /\ unhandled = {}
    /\ lastOp.op \in {"loadRejected", "toggleRejected"} => state.error = LoadError

\* C18: when the incremental fetch of a toggled pollutant fails, the stored
\* series of every other pollutant are unchanged.
C18_FailedToggleKeepsOtherSeries ==
    [][\A f \in inflight :
          ToggleReject(f) =>
              \A p \in Pollutants \ {f.pollutants[1]} :
                  state'.historicalData[p] = state.historicalData[p]]_vars

C18_Witness ==
    /\ lastOp.op = "toggleRejected"
    /\ \E p \in Pollutants \ {lastOp.pollutant} : Store[p] # NoData /\ Store[p].points # <<>>

\* C19: after close all session state is cleared: the chart controls are at
\* their defaults, the series store is empty, loading and error are
\* cleared, and the in-flight flag and the last admitted key are reset.
C19_CloseClearsSession ==
    lastOp.op = "close" =>
        /\ Controls = InitialControls
        /\ Store = EmptyStore
        /\ ~state.loading
        /\ state.error = NoError
        /\ ~loadingRef
        /\ initialLoadDoneRef = NoKey

\* the selection a new station starts with: the caller's default pollutant
\* if in service there, else the first channel in service, else none
DerivedSelection(station) ==
    IF initialPollutant \in StationVariables[station] THEN <<initialPollutant>>
    ELSE IF getAvailablePollutants(station) # <<>> THEN <<getAvailablePollutants(station)[1]>>
    ELSE <<>>

\* C20: selecting a new station, whatever happened before, sets the selected
\* pollutants to the derived selection, the time step to the supported
\* default (the default step "heure" narrowed by the supported steps, not the
\* step chosen for the previous station), the range to the 24h preset, and
\* empties the series store.
C20_NewStationResetsControls ==
    lastOp.op = "select" =>
        /\ Controls.selectedPollutants = DerivedSelection(stationIdRef)
        /\ Controls.timeStep =
              getInitialTimeStepForPollutants(DerivedSelection(stationIdRef), "heure")
        /\ Controls.timeRange = PresetRange("24h")
        /\ Store = EmptyStore

\* C21: toggling on an unselected pollutant that has no stored series
\* dispatches one fetch, for that pollutant alone, and leaves the loading
\* indicator and the store as they are; when that fetch succeeds only that
\* pollutant's series is merged, every other stored series is unchanged.
C21_ToggleOnFetchesOnePollutant ==
    [][/\ \A p \in Pollutants :
             (/\ handlePollutantToggle(p)
              /\ ~Includes(Controls.selectedPollutants, p)
              /\ Store[p] = NoData) =>
                 /\ fetchCount' = fetchCount + 1
                 /\ \E f \in inflight' :
                       /\ inflight' = inflight \cup {f}
                       /\ f.id = fetchCount'
                       /\ f.kind = "toggle"
                       /\ f.pollutants = <<p>>
                       /\ f.station = selectedStation
                 /\ state'.loading = state.loading
                 /\ isLoading' = isLoading
                 /\ state'.historicalData = Store
                 /\ Includes(state'.chartControls.selectedPollutants, p)
       /\ \A f \in inflight, points \in SamplePoints :
             ToggleResolve(f, points) =>
                 /\ state'.historicalData[f.pollutants[1]].points = points
                 /\ \A q \in Pollutants \ {f.pollutants[1]} :
                       state'.historicalData[q] = Store[q]
                 /\ state'.loading = state.loading]_vars

C21_Witness ==
    /\ lastOp.op = "toggleResolved"
    /\ Includes(Controls.selectedPollutants, lastOp.pollutant)
    /\ Store[lastOp.pollutant].kind = "toggle"
    /\ Store[lastOp.pollutant].points # <<>>
    /\ \E q \in Pollutants \ {lastOp.pollutant} : Store[q].kind = "load" /\ Store[q].points # <<>>

\* the loadHistoricalData calls that have not settled
LoadsInFlight == {f \in inflight : f.kind = "load"}

\* C22: the in-flight flag is set in the step that starts an admitted fetch
\* and, while that fetch is the only load under way (so it is the one that
\* set the flag), the flag stays set as long as the fetch is in flight and is
\* cleared by the step that settles it, on success and on rejection alike.
C22_FlagHeldUntilItsFetchSettles ==
    [][/\ (RafCallback /\ fetchCount' # fetchCount) =>
             /\ loadingRef'
             /\ \E f \in inflight' \ inflight : f.id = fetchCount' /\ f.kind = "load"
       /\ \A f \in inflight :
             (loadingRef /\ LoadsInFlight = {f}) =>
                 IF f \in inflight' THEN loadingRef' ELSE ~loadingRef']_vars

\* what the claim on corrections says of one application of
\* adjustTimeRangeIfNeeded to timeRange and timeStep with result res
CorrectionAsStated(timeRange, timeStep, res) ==
    LET maxDays == getMaxHistoryDays(timeStep)
        end == IF timeRange.type = "preset" THEN IsoDate(now) ELSE timeRange.endDate
    IN  /\ res.wasAdjusted <=> (maxDays # 0 /\ EffectiveEighths(timeRange) > maxDays * 8)
        /\ res.wasAdjusted =>
              /\ res.adjustedRange = CustomRange(end - maxDays, end)
              /\ EffectiveEighths(res.adjustedRange) = maxDays * 8
        /\ ~res.wasAdjusted => res.adjustedRange = timeRange

\* C23: adjustTimeRangeIfNeeded corrects exactly the ranges whose duration
\* exceeds a bounded maximum history; the corrected range is a custom range
\* that keeps the original end (today for a preset), starts maxDays days
\* before it and so lasts exactly maxDays days.
C23_CorrectedRangeSpansMaxHistory ==
    [][/\ Reconcile => CorrectionAsStated(policy.timeRange, policy.timeStep, policy'.first)
       /\ ReconcileAgain => CorrectionAsStated(policy.first.adjustedRange, policy.timeStep,
                                               policy'.second)]_vars

C23_Witness ==
    /\ policy.phase = "once"
    /\ policy.first.wasAdjusted
    /\ policy.timeRange.type = "custom"
    /\ policy.timeRange.endDate # IsoDate(now)
    /\ policy.first.adjustedRange.startDate > policy.timeRange.startDate

(***************************************************************************)
(* The step options of the rendered panel: station A is shown with the     *)
(* unbounded step "jour" active, the user picks a range, and the render    *)
(* evaluates isTimeStepValidForCurrentRange for a step option.             *)
(***************************************************************************)
\* the panel after: station A selected, initial load resolved, step changed
\* to "jour", second load resolved
ShownWithDailyStep ==
    LET f == [id |-> 2, kind |-> "load", station |-> "A", pollutants |-> <<initialPollutant>>,
              timeRange |-> PresetRange("24h"), timeStep |-> "jour",
              dates |-> getDateRange(PresetRange("24h"))]
        points == <<Num(10), Num(20), Num(30)>>
    IN  /\ isOpen = TRUE
        /\ selectedStation = "A"
        /\ state = [isOpen |-> TRUE, selectedStation |-> "A",
                    chartControls |-> [InitialControls EXCEPT !.timeStep = "jour"],
                    historicalData |-> [EmptyStore EXCEPT ![initialPollutant] = Series(f, points)],
                    loading |-> FALSE, error |-> NoError, infoMessage |-> NoMessage]
        /\ isLoading = FALSE
        /\ loadingRef = FALSE
        /\ initialLoadDoneRef = loadKey("A", <<initialPollutant>>, PresetRange("24h"),
                                        InitialControls.timeStep)
        /\ stationIdRef = "A"
        /\ rafQueue = <<>>
        /\ fetchCount = 2
        /\ inflight = {}
        /\ unhandled = {}
        /\ timers = 0
        /\ lastOp = Op("loadResolved", "", 0)
        /\ lastLoad = 2

InitOptions ==
    /\ now = Now0
    /\ pollutants = DefaultPollutants
    /\ policy = PolicyIdle
    /\ ShownWithDailyStep
    /\ fetchLimit = fetchCount + 1

\* one evaluation of the disabled attribute of a step option
RenderStepOption(timeStep) ==
    /\ PanelRendered
    /\ policy' = [policy EXCEPT !.phase = "option", !.timeStep = timeStep,
                                !.timeRange = state.chartControls.timeRange,
                                !.valid = isTimeStepValidForCurrentRange(timeStep)]
    /\ UNCHANGED <<componentVars, now, fetchLimit, pollutants>>

NextOptions ==
    \/ \E timeRange \in PolicyRanges : handleTimeRangeChange(timeRange)
    \/ \E f \in inflight, points \in SamplePoints : LoadResolve(f, points)
    \/ \E f \in inflight : LoadReject(f)
    \/ \E timeStep \in TimeSteps : RenderStepOption(timeStep)

SpecOptions == InitOptions /\ [][NextOptions]_vars

\* C24: isTimeStepValidForCurrentRange(step) is true iff the step's maximum
\* history is unbounded or the effective duration of the active range is at
\* most that maximum, which is exactly when adjustTimeRangeIfNeeded on the
\* active range and that step reports wasAdjusted = false; the evaluation
\* changes no state of the component.
C24_ValidIffNotCorrected ==
    [][\A timeStep \in TimeSteps :
          RenderStepOption(timeStep) =>
              LET maxDays == getMaxHistoryDays(timeStep)
              IN  /\ policy'.valid <=>
                         (maxDays = 0 \/ EffectiveEighths(Controls.timeRange) <= maxDays * 8)
                  /\ policy'.valid <=>
                         ~adjustTimeRangeIfNeeded(Controls.timeRange, timeStep).wasAdjusted
                  /\ UNCHANGED componentVars]_vars

C24_Witness ==
    /\ policy.phase = "option"
    /\ ~policy.valid
    /\ policy.timeRange.type = "custom"
    /\ policy.timeRange = Controls.timeRange
    /\ \E timeStep \in TimeSteps :
          /\ timeStep # policy.timeStep
          /\ isTimeStepValidForCurrentRange(timeStep)
          /\ EffectiveEighths(Controls.timeRange) = getMaxHistoryDays(timeStep) * 8

(***************************************************************************)
(* The controller under the scheduling the platform guarantees: a          *)
(* requested animation frame callback runs, a pending promise settles, a   *)
(* timer fires.  Nothing obliges the user or the parent to act.            *)
(***************************************************************************)
Settle ==
    \/ \E f \in inflight, points \in SamplePoints : LoadResolve(f, points)
    \/ \E f \in inflight : LoadReject(f)
    \/ \E f \in inflight, points \in SamplePoints : ToggleResolve(f, points)
    \/ \E f \in inflight : ToggleReject(f)

SpecLive ==
    /\ Init
    /\ [][Next]_vars
    /\ WF_vars(RafCallback)
    /\ WF_vars(Settle)
    /\ WF_vars(InfoTimeout)

\* the new-station branch of the effect has just run for station
Selected(station) ==
    /\ lastOp.op = "select"
    /\ selectedStation = station
    /\ Controls.selectedPollutants # <<>>

\* the panel is no longer open on station
Left(station) == ~isOpen \/ selectedStation # station

\* C25: after the selection of a new station with a non-empty initial
\* pollutant selection, if the panel stays open on that station, a fetch for
\* the station is eventually in flight, and the view eventually is not
\* loading and shows a series of that station or the error state.
C25_NewStationIsEventuallyLoaded ==
    \A station \in Stations :
        /\ Selected(station) ~>
               (Left(station) \/ \E f \in inflight : f.station = station)
        /\ Selected(station) ~>
               (\/ Left(station)
                \/ /\ ~state.loading
                   /\ \/ state.error # NoError
                      \/ \E p \in Pollutants : Store[p] # NoData /\ Store[p].station = station)

\* C26: while the panel is closed no fetch is dispatched and the series
\* store is empty; a dispatch deferred at selection time and a fetch still
\* in flight at close time do nothing to the closed session.
C26_ClosedPanelIsInert ==
    [][(~state.isOpen /\ ~state'.isOpen) =>
          /\ fetchCount' = fetchCount
          /\ inflight' \subseteq inflight
          /\ Store = EmptyStore
          /\ state'.historicalData = EmptyStore]_vars

\* C27: once every fetch has settled and no dispatch is pending, each series
\* in the store of the shown panel was fetched for the current station, the
\* active time range and the active time step.
C27_SettledStoreMatchesControls ==
    (Quiescent /\ PanelRendered) =>
        \A p \in Pollutants :
            Store[p] # NoData =>
                /\ Store[p].station = selectedStation
                /\ Store[p].timeRange = Controls.timeRange
                /\ Store[p].timeStep = Controls.timeStep

\* C28: while the shown panel's loading indicator is false, no full load
\* (one started by the selection, a range change or a step change) of the
\* shown station is still in flight.
C28_NotLoadingMeansNoLoadInFlight ==
    (PanelRendered /\ ~state.loading) =>
        \A f \in LoadsInFlight : f.station # selectedStation

\* C29: handleTimeStepChange with a step that the selected pollutants do not
\* support changes nothing: chart controls, store, loading and error state
\* and notice stay as they are, no fetch is dispatched and no timer started.
C29_UnsupportedStepIsNoOp ==
    [][\A timeStep \in TimeSteps :
          (/\ handleTimeStepChange(timeStep)
           /\ ~Includes(getSupportedTimeStepsForPollutants(Controls.selectedPollutants), timeStep))
              => UNCHANGED <<state, isLoading, loadingRef, initialLoadDoneRef, rafQueue,
                             fetchCount, inflight, timers, lastLoad>>]_vars

C29_Witness ==
    /\ lastOp.op = "setTimeStepRefused"
    /\ Store # EmptyStore
    /\ Controls.timeStep = lastOp.prevStep
    /\ Controls.selectedPollutants # <<>>
    /\ inflight = {}

\* C30: delivering again the station that is already shown (same id, panel
\* open) leaves chart controls, store, loading and error state unchanged,
\* schedules no dispatch and sends no fetch; a selection effect on an open
\* panel resets controls or store only for a station id other than the one
\* recorded.
C30_SameStationKeepsSession ==
    [][\A station \in Stations :
          SelectionEffect(TRUE, station) =>
              /\ (isOpen /\ selectedStation = station) =>
                     /\ station = stationIdRef
                     /\ UNCHANGED <<isLoading, loadingRef, initialLoadDoneRef, stationIdRef,
                                    rafQueue, fetchCount, inflight, lastLoad>>
                     /\ state' = [state EXCEPT !.isOpen = TRUE, !.selectedStation = station]
              /\ (state'.chartControls # Controls \/ state'.historicalData # Store) =>
                     station # stationIdRef]_vars

C30_Witness ==
    /\ lastOp.op = "reselect"
    /\ PanelRendered
    /\ Store # EmptyStore
    /\ Controls # InitialControls
    /\ inflight # {}

(***************************************************************************)
(* The controller with ModuleAirService as its fetch collaborator.  A      *)
(* response of makeRequest is a failure (it throws), a value that is not   *)
(* an array, or an array of rows; the value of a row is a parsable number, *)
(* missing (undefined, null or "-1") or a text parseFloat cannot read.     *)
(***************************************************************************)
\* this.sensors: the sensor ids the service is configured with
ServiceSensors == {"A"}

ServiceResponses ==
    {[kind |-> "failed", rows |-> <<>>],
     [kind |-> "object", rows |-> <<>>],
     [kind |-> "array", rows |-> <<Num(10), NullSample, NaNSample>>]}

\* response.map(...).filter(p => !isNaN(p.value))
MapRows(rows) ==
    LET mapped == [i \in 1..Len(rows) |->
                      IF rows[i].kind = "null" THEN Num(0)
                      ELSE IF rows[i].kind = "number" THEN Num(rows[i].value)
                      ELSE NaNSample]
    IN  SelectSeq(mapped, LAMBDA d : d.kind # "NaN")

\* fetchHistoricalData without its try/catch around makeRequest
fetchHistoricalData_NoCatch(sensorId, response) ==
    IF sensorId \notin ServiceSensors THEN [settled |-> "resolved", data |-> <<>>]
    ELSE IF response.kind = "failed" THEN [settled |-> "rejected", data |-> <<>>]
    ELSE IF response.kind # "array" THEN [settled |-> "resolved", data |-> <<>>]
    ELSE [settled |-> "resolved", data |-> MapRows(response.rows)]

\* how the promise of fetchHistoricalData settles
fetchHistoricalData(sensorId, response) ==
    IF sensorId \notin ServiceSensors THEN [settled |-> "resolved", data |-> <<>>]
    ELSE IF response.kind = "failed" THEN [settled |-> "resolved", data |-> <<>>]
    ELSE IF response.kind # "array" THEN [settled |-> "resolved", data |-> <<>>]
    ELSE [settled |-> "resolved", data |-> MapRows(response.rows)]

\* the settlement of fetch f when makeRequest gives response
ServiceSettle(f, response) ==
    LET r == fetchHistoricalData(f.station, response)
    IN  IF f.kind = "load"
        THEN IF r.settled = "resolved" THEN LoadResolve(f, r.data) ELSE LoadReject(f)
        ELSE IF r.settled = "resolved" THEN ToggleResolve(f, r.data) ELSE ToggleReject(f)

NextService ==
    \/ \E station \in Stations : SelectionEffect(TRUE, station)
    \/ SelectionEffect(TRUE, NoStation)
    \/ SelectionEffect(FALSE, NoStation)
    \/ RafCallback
    \/ \E pollutant \in Pollutants : handlePollutantToggle(pollutant)
    \/ \E timeRange \in RangeInputs : handleTimeRangeChange(timeRange)
    \/ \E timeStep \in StepInputs : handleTimeStepChange(timeStep)
    \/ InfoTimeout
    \/ \E f \in inflight, response \in ServiceResponses : ServiceSettle(f, response)

SpecService == Init /\ [][NextService]_vars

\* the cases in which a fetch of sensorId gets no data from the backend
FailedRequest(sensorId, response) ==
    sensorId \notin ServiceSensors \/ response.kind # "array"

\* C31: fetchHistoricalData never rejects; for an unknown sensor id, a
\* response that is not an array and a failed request it resolves with the
\* empty sequence, so the load settles with loading false, no error, an
\* empty series for each pollutant it asked for and no statistics, and the
\* view is never put in the error state.
C31_ServiceFailureGivesEmptySeries ==
    [][/\ state'.error = NoError
       /\ unhandled' = {}
       /\ \A f \in LoadsInFlight, response \in ServiceResponses :
             (ServiceSettle(f, response) /\ FailedRequest(f.station, response)) =>
                 /\ fetchHistoricalData(f.station, response) =
                        [settled |-> "resolved", data |-> <<>>]
                 /\ ~state'.loading
                 /\ state'.historicalData =
                        [p \in Pollutants |->
                            IF p \in ToSet(f.pollutants) THEN Series(f, <<>>) ELSE NoData]
                 /\ stats' = NoStats]_vars

C31_Witness ==
    /\ lastOp.op = "loadResolved"
    /\ PanelRendered
    /\ selectedStation \notin ServiceSensors
    /\ \E p \in Pollutants :
          /\ Store[p] # NoData
          /\ Store[p].station = selectedStation
          /\ Store[p].points = <<>>
          /\ Controls.selectedPollutants = <<p>>
    /\ ~state.loading
    /\ state.error = NoError
    /\ stats = NoStats

====
